---- MODULE Spec2Model ----
(***************************************************************************)
(* GRBackup (src/grbackup.py): one-way incremental SFTP mirror.           *)
(*                                                                         *)
(* The script is a straight-line program; every step below is one          *)
(* statement group of it, and pc is the position of the process.           *)
(*                                                                         *)
(* Two specifications are given.                                           *)
(*   Spec      the process from its first statement (configuration load,   *)
(*             line 246, and the start-up log line, line 294).             *)
(*   SpecSync  the synchronisation section, lines 308-437, started from    *)
(*             the state in which the start-up logging has returned.       *)
(* Line 294 refers to the name 'version', which the module never binds     *)
(* (line 56 binds VERSION), so under Spec the process stops there; the     *)
(* synchronisation code is therefore analysed on its own under SpecSync.   *)
(***************************************************************************)
EXTENDS Integers, Sequences, FiniteSets, TLC

(***************************************************************************)
(* Bounds of the model.                                                    *)
(***************************************************************************)
MaxTime == 2        \* epochs (clock, watermark, remote mtimes) are 0..MaxTime
MaxRuns == 2        \* consecutive executions of the same profile
MaxSize == 1        \* remote sizes are 1..MaxSize
MaxMods == 1        \* remote entries modified while the model runs
MaxFragments == 3   \* documents in grbackup.conf

(***************************************************************************)
(* Names of the remote folder and paths of the local target folder.        *)
(* localpath = targetfolder + name, localpath_backup = localpath + ".back" *)
(* so a path is identified with the name it ends in.                       *)
(***************************************************************************)
Folders == {{}, {"a", "a.back"}, {"a", "b"}}   \* contents the remote folder can have

Names == UNION Folders

Back(p) == p \o ".back"

Paths == Names \cup {Back(n) : n \in Names}

(***************************************************************************)
(* File contents.  Absent is "no file"; a file is <<kind, origin, run>>:   *)
(* "old" a file present before the first run, "full" a completely fetched  *)
(* copy of remote entry origin, "part" what an interrupted fetch left.     *)
(***************************************************************************)
Absent == <<>>

Old(p) == <<"old", p, 0>>

Full(n, r) == <<"full", n, r>>

Part(n, r) == <<"part", n, r>>

isfile(fs, p) == fs[p] # Absent

\* a rename that loses the file: src disappears, dst is not written
RenameLosing(fs, src, dst) == [fs EXCEPT ![src] = Absent]

\* os.rename(src, dst): dst is replaced by src, src disappears
Rename(fs, src, dst) == [fs EXCEPT ![dst] = fs[src], ![src] = Absent]

\* os.remove(p)
Remove(fs, p) == [fs EXCEPT ![p] = Absent]

(***************************************************************************)
(* The state file holds "%s" % int(time.time()) and is read back with      *)
(* int(last_file.read()).  Text is a sequence of characters; the digits    *)
(* are the characters "0".."9".                                            *)
(***************************************************************************)
Digits == <<"0", "1", "2", "3", "4", "5", "6", "7", "8", "9">>

DigitVal(c) == (CHOOSE k \in 1..10 : Digits[k] = c) - 1

IsDigit(c) == \E k \in 1..10 : Digits[k] = c

RECURSIVE FormatInt(_)
FormatInt(n) == IF n < 10 THEN <<Digits[n + 1]>>
                ELSE Append(FormatInt(n \div 10), Digits[(n % 10) + 1])

RECURSIVE ParseDigits(_)
ParseDigits(s) == IF Len(s) = 0 THEN 0
                  ELSE 10 * ParseDigits(SubSeq(s, 1, Len(s) - 1)) + DigitVal(s[Len(s)])

\* int(text) raises ValueError unless the text is a decimal numeral
Parsable(s) == Len(s) > 0 /\ \A k \in 1..Len(s) : IsDigit(s[k])

NoFile == [exists |-> FALSE, text |-> <<>>]

FileWith(s) == [exists |-> TRUE, text |-> s]

Garbage == <<"x">>

(***************************************************************************)
(* The download decision, lines 362-378.                                   *)
(***************************************************************************)
\* the decision with >= in place of > on line 375
ToDownloadGE(isreg, sync, present, mtime, lastsync) ==
    isreg /\ ((sync /\ ~present) \/ mtime >= lastsync)

\* the decision without the sync test of lines 372-373
ToDownloadNoSync(isreg, sync, present, mtime, lastsync) ==
    isreg /\ mtime > lastsync

ToDownload(isreg, sync, present, mtime, lastsync) ==
    LET t0 == FALSE
        t1 == IF sync /\ present = FALSE THEN TRUE ELSE t0
        t2 == IF mtime > lastsync THEN TRUE ELSE t1
    IN  IF isreg THEN t2 ELSE t0

(***************************************************************************)
(* State.                                                                  *)
(***************************************************************************)
(***************************************************************************)
(* Profiles (class gr_param).  A profile is kept by the fields the state   *)
(* file and the decision rule depend on; a document of grbackup.conf is a  *)
(* mapping that sets some of them (the YAML sections are flattened:        *)
(* execmode.sync is the key sync).                                         *)
(***************************************************************************)
ProfileNames == {"default", "p", "q"}

Explicit == "x.txt"     \* a last_exec_filename written in the configuration

\* gr_param.__init__: the file names are computed from the name given here
gr_param(name) ==
    [name |-> name,
     last_exec_filename |-> "grbackup_" \o name \o "_last.txt",
     sync |-> TRUE]

\* gr_param.load: only the keys present in data are assigned
load(self, data) ==
    [name |-> IF "name" \in DOMAIN data THEN data.name ELSE self.name,
     last_exec_filename |-> IF "last_exec_filename" \in DOMAIN data
                            THEN data.last_exec_filename
                            ELSE self.last_exec_filename,
     sync |-> IF "sync" \in DOMAIN data THEN data.sync ELSE self.sync]

Fields == {"name", "last_exec_filename", "sync"}

\* a key of a document: not written (<<>>) or written with a value (<<v>>)
Opt(S) == {<<>>} \cup {<<v>> : v \in S}

Doc(n, l, s) ==
    [f \in {g \in Fields : \/ g = "name" /\ n # <<>>
                           \/ g = "last_exec_filename" /\ l # <<>>
                           \/ g = "sync" /\ s # <<>>} |->
        CASE f = "name" -> n[1]
          [] f = "last_exec_filename" -> l[1]
          [] f = "sync" -> s[1]]

\* the documents yaml.load_all can yield: mappings over some of the fields
Fragments ==
    {Doc(n, l, s) : n \in Opt({"p", "q"}), l \in Opt({Explicit}), s \in Opt(BOOLEAN)}

Confs == UNION {[1..k -> Fragments] : k \in 0..MaxFragments}

FileNames == {gr_param(n).last_exec_filename : n \in ProfileNames} \cup {Explicit}

NoEpoch == -1           \* the state file does not exist

Unbound == [name |-> "", last_exec_filename |-> "", sync |-> FALSE]

VARIABLES
    pc,                 \* position of the process in the script
    run,                \* number of the current execution
    param,              \* resolved profile
    clock,              \* wall clock, time.time()
    stateFile,          \* param.last_exec_filename
    remote,             \* remote folder: name -> attributes
    local,              \* target folder: path -> content
    lastsync_date,
    filelist,
    idx,                \* position of the for loop in filelist
    filetoget,
    filestat,
    to_download,
    nb_files_download,
    nb_files_error,
    tot_size,
    prior,              \* history: content of localpath when filetoget was examined
    outcome,            \* history: result of sftp.get for filetoget
    nsel,               \* history: entries selected (to_download) in this run
    wrote,              \* history: the state file was written in this run
    fatal,              \* history: the fatal condition this run has hit
    stateFile0,         \* history: state file when the run started
    local0,             \* history: target folder when the run started
    prev,               \* history: how the previous run ended
    nread,              \* history: executions of the state load (lines 315-331) in this run
    nsave,              \* history: executions of the state save (lines 426-429) in this run
    failed,             \* history: names whose sftp.get failed in this run
    start_time,         \* start_time, line 311
    summary,            \* history: the "Finished" line this run has logged
    nget,               \* history: sftp.get calls started in this run
    okbytes,            \* history: sum of st_size of the entries whose sftp.get returned
    pend,               \* history: name -> run of its unselected modification, 0: none
    conf,               \* the documents of grbackup.conf, in file order
    selected_param,     \* sys.argv[1], or "default"
    load_count,         \* documents read so far
    defaultparam,       \* the default profile
    files,              \* the state files: file name -> saved epoch, or absent
    saved               \* history: profile name -> epoch saved by its last completed run

vars == <<pc, run, param, clock, stateFile, remote, local, lastsync_date,
          filelist, idx, filetoget, filestat, to_download, nb_files_download,
          nb_files_error, tot_size, prior, outcome, nsel, wrote, fatal,
          stateFile0, local0, prev,
          nread,
          nsave,
          failed,
          start_time,
          summary,
          nget,
          okbytes,
          pend,
          conf,
          selected_param,
          load_count,
          defaultparam,
          files,
          saved>>

NoName == ""

NoSummary == [emitted |-> FALSE]

\* line 437: "Finished: <n> updated/new files downloaded - <bytes> - <duration>"
SummaryLine(n, bytes, duration) ==
    [emitted |-> TRUE, files |-> n, bytes |-> bytes, duration |-> duration]

NoStat == [reg |-> FALSE, mtime |-> 0, size |-> 0]

NoPrev == [wrote |-> FALSE, T |-> 0, errors |-> 0, simulation |-> FALSE,
           done |-> FALSE, loaded |-> 0, failed |-> {}]

Attrs == [reg : BOOLEAN, mtime : 0..MaxTime, size : 1..MaxSize]

\* the environment a run can find: profile, state file, remote and local folder
InitEnv ==
    /\ run = 1
    /\ param \in [sync : BOOLEAN, simulation : BOOLEAN]
    /\ clock = 1
    /\ stateFile \in {NoFile, FileWith(Garbage)} \cup {FileWith(FormatInt(t)) : t \in 0..MaxTime}
    /\ remote \in UNION {[F -> Attrs] : F \in Folders}
    /\ local \in {[p \in Paths |-> IF p \in S THEN Old(p) ELSE Absent] :
                      S \in SUBSET (DOMAIN remote \cup {Back(n) : n \in DOMAIN remote})}
    /\ lastsync_date = 0
    /\ filelist = <<>>
    /\ idx = 0
    /\ filetoget = NoName
    /\ filestat = NoStat
    /\ to_download = FALSE
    /\ nb_files_download = 0
    /\ nb_files_error = 0
    /\ tot_size = 0
    /\ prior = Absent
    /\ outcome = "none"
    /\ nsel = 0
    /\ wrote = FALSE
    /\ stateFile0 = stateFile
    /\ local0 = local
    /\ prev = NoPrev
    /\ nread = 0
    /\ nsave = 0
    /\ failed = {}
    /\ start_time = 0
    /\ summary = NoSummary
    /\ nget = 0
    /\ okbytes = 0
    /\ pend = [n \in Names |-> 0]
    /\ conf = <<>>
    /\ selected_param = "default"
    /\ load_count = 0
    /\ defaultparam = gr_param("default")
    /\ files = [f \in FileNames |-> NoEpoch]
    /\ saved = [n \in ProfileNames |-> 0]

Init == InitEnv /\ pc = "load_config" /\ fatal = "none"

\* lines 246-306 are over: the configuration error has called exit(), or the
\* start-up is done and the process stands at line 308
InitSync ==
    /\ InitEnv
    /\ \/ pc = "read_state" /\ fatal = "none"
       \/ pc = "exit_config" /\ fatal = "config"

Terminal == {"exit_config", "crash_startup", "exit_state", "crash_state",
             "exit_connect", "exit_list", "crash_stat", "exit_backup",
             "crash_handler", "done"}

(***************************************************************************)
(* Frames.                                                                 *)
(***************************************************************************)
envVars == <<run, param, remote, stateFile0, local0, prev>>

loopVars == <<filelist, idx, filetoget, filestat, to_download, prior, outcome, nsel>>

countVars == <<nb_files_download, nb_files_error, tot_size>>

\* the statement reached when the body of the for loop ends at position i
AfterEntry(i, list) == IF i + 1 > Len(list) THEN "close" ELSE "loop"

\* all orders in which listdir can return the names of folder F
Listings(F) == {l \in [1..Cardinality(F) -> F] :
                    \A j, k \in 1..Cardinality(F) : j # k => l[j] # l[k]}

(***************************************************************************)
(* Lines 246-266: load grbackup.conf.  Any exception prints an error and   *)
(* calls exit().                                                           *)
(***************************************************************************)
LoadConfig ==
    /\ pc = "load_config"
    /\ \/ pc' = "startup_log" /\ UNCHANGED fatal
       \/ pc' = "exit_config" /\ fatal' = "config"
    /\ UNCHANGED <<saved, files, defaultparam, load_count, selected_param,
                   conf, pend, okbytes, nget, summary, start_time, failed,
                   nsave, nread, envVars, loopVars, countVars, clock,
                   stateFile, local,
                   lastsync_date, wrote>>

(***************************************************************************)
(* Line 294: logger.info("GRBackup "+version+...).  The name version is    *)
(* not bound, evaluating the argument raises NameError, nothing catches it.*)
(***************************************************************************)
StartupLog ==
    /\ pc = "startup_log"
    /\ pc' = "crash_startup"
    /\ UNCHANGED <<saved, files, defaultparam, load_count, selected_param,
                   conf, pend, okbytes, nget, summary, start_time, failed,
                   nsave, nread, fatal, envVars, loopVars, countVars, clock,
                   stateFile, local,
                   lastsync_date, wrote>>

(***************************************************************************)
(* Lines 308-331: counters, start_time and the date of the last sync.      *)
(* Only IOError is caught; int() of a text that is no numeral raises       *)
(* ValueError, which ends the process.                                     *)
(***************************************************************************)
ReadState ==
    /\ pc = "read_state"
    /\ nb_files_download' = 0
    /\ nb_files_error' = 0
    /\ tot_size' = 0
    /\ IF ~stateFile.exists
       THEN /\ lastsync_date' = 0
            /\ pc' = "connect"
            /\ UNCHANGED fatal
       ELSE \/ /\ pc' = "exit_state"                  \* IOError: open or read failed
               /\ fatal' = "state"
               /\ UNCHANGED lastsync_date
            \/ IF Parsable(stateFile.text)
               THEN /\ lastsync_date' = ParseDigits(stateFile.text)
                    /\ pc' = "connect"
                    /\ UNCHANGED fatal
               ELSE /\ pc' = "crash_state"            \* ValueError, not caught
                    /\ fatal' = "state"
                    /\ UNCHANGED lastsync_date
    /\ UNCHANGED <<saved, files, defaultparam, load_count, selected_param,
                   conf, pend, okbytes, nget, summary, failed, nsave, envVars,
                   loopVars, clock, stateFile, local, wrote>>
    /\ nread' = nread + 1
    /\ start_time' = clock

(***************************************************************************)
(* Lines 334-345: open the connection.                                     *)
(***************************************************************************)
Connect ==
    /\ pc = "connect"
    /\ \/ pc' = "listdir" /\ UNCHANGED fatal
       \/ pc' = "exit_connect" /\ fatal' = "connect"
    /\ UNCHANGED <<saved, files, defaultparam, load_count, selected_param,
                   conf, pend, okbytes, nget, summary, start_time, failed,
                   nsave, nread, envVars, loopVars, countVars, clock,
                   stateFile, local,
                   lastsync_date, wrote>>

(***************************************************************************)
(* Lines 347-358: list the remote folder.                                  *)
(***************************************************************************)
ListDir ==
    /\ pc = "listdir"
    /\ \/ /\ pc' = "exit_list"
          /\ fatal' = "listing"
          /\ UNCHANGED <<filelist, idx>>
       \/ \E l \in Listings(DOMAIN remote) :
             /\ filelist' = l
             /\ idx' = 1
             /\ pc' = AfterEntry(0, l)
             /\ UNCHANGED fatal
    /\ UNCHANGED <<saved, files, defaultparam, load_count, selected_param,
                   conf, pend, okbytes, nget, summary, start_time, failed,
                   nsave, nread, envVars, countVars, clock, stateFile, local,
                   lastsync_date,
                   wrote, filetoget, filestat, to_download, prior, outcome, nsel>>

(***************************************************************************)
(* Lines 361-382 and 412-413: the head of the loop body.  sftp.stat is     *)
(* outside every try block.  A selected entry goes to the transfer unless  *)
(* simulation is on; every other entry ends the body.                      *)
(***************************************************************************)
Examine ==
    /\ pc = "loop"
    /\ LET name == filelist[idx]
           td   == ToDownload(remote[name].reg, param.sync, isfile(local, name),
                              remote[name].mtime, lastsync_date)
       IN  /\ filetoget' = name
           /\ prior' = local[name]
           /\ outcome' = "none"
           /\ \/ /\ to_download' = FALSE              \* sftp.stat raises
                 /\ pc' = "crash_stat"
                 /\ UNCHANGED <<filestat, idx, nsel>>
              \/ /\ filestat' = remote[name]
                 /\ to_download' = td
                 /\ nsel' = IF td THEN nsel + 1 ELSE nsel
                 /\ IF td /\ param.simulation = FALSE
                    THEN /\ pc' = "backup"
                         /\ UNCHANGED idx
                    ELSE /\ pc' = AfterEntry(idx, filelist)
                         /\ idx' = idx + 1
    /\ UNCHANGED <<saved, files, defaultparam, load_count, selected_param,
                   conf, okbytes, nget, summary, start_time, failed, nsave,
                   nread, fatal, envVars, countVars, clock, stateFile, local,
                   lastsync_date,
                   wrote, filelist>>
    /\ pend' = IF to_download' THEN [pend EXCEPT ![filetoget'] = 0] ELSE pend

\* lines 384-394 with the exit() of line 394 left out
BackupPreviousNoExit ==
    /\ pc = "backup"
    /\ IF isfile(local, filetoget)
       THEN \/ /\ local' = Rename(local, filetoget, Back(filetoget))
               /\ pc' = "get"
               /\ UNCHANGED fatal
            \/ /\ pc' = "get"
               /\ fatal' = "backup"
               /\ UNCHANGED local
       ELSE /\ pc' = "get"
            /\ UNCHANGED <<local, fatal>>
    /\ UNCHANGED <<saved, files, defaultparam, load_count, selected_param,
                   conf, pend, okbytes, nget, summary, start_time, failed,
                   nsave, nread, envVars, loopVars, countVars, clock,
                   stateFile,
                   lastsync_date, wrote>>

(***************************************************************************)
(* Lines 384-394: rename an existing local file to localpath + ".back";    *)
(* a failed rename calls exit().                                           *)
(***************************************************************************)
BackupPrevious ==
    /\ pc = "backup"
    /\ IF isfile(local, filetoget)
       THEN \/ /\ local' = Rename(local, filetoget, Back(filetoget))
               /\ pc' = "get"
               /\ UNCHANGED fatal
            \/ /\ pc' = "exit_backup"
               /\ fatal' = "backup"
               /\ UNCHANGED local
       ELSE /\ pc' = "get"
            /\ UNCHANGED <<local, fatal>>
    /\ UNCHANGED <<saved, files, defaultparam, load_count, selected_param,
                   conf, pend, okbytes, nget, summary, start_time, failed,
                   nsave, nread, envVars, loopVars, countVars, clock,
                   stateFile,
                   lastsync_date, wrote>>

(***************************************************************************)
(* Line 396: sftp.get(path, localpath).  The call either fails before it   *)
(* has created the local file or creates it and starts writing.            *)
(***************************************************************************)
GetOpen ==
    /\ pc = "get"
    /\ \/ /\ outcome' = "failed"
          /\ pc' = "handler"
          /\ UNCHANGED local
       \/ /\ local' = [local EXCEPT ![filetoget] = Part(filetoget, run)]
          /\ pc' = "getting"
          /\ UNCHANGED outcome
    /\ UNCHANGED <<saved, files, defaultparam, load_count, selected_param,
                   conf, pend, okbytes, summary, start_time, failed, nsave,
                   nread, fatal, envVars, countVars, clock, stateFile,
                   lastsync_date, wrote,
                   filelist, idx, filetoget, filestat, to_download, prior, nsel>>
    /\ nget' = nget + 1

(***************************************************************************)
(* Line 396, continued: the transfer completes, or it raises and leaves    *)
(* what was written so far.                                                *)
(***************************************************************************)
GetTransfer ==
    /\ pc = "getting"
    /\ \/ /\ local' = [local EXCEPT ![filetoget] = Full(filetoget, run)]
          /\ outcome' = "ok"
          /\ pc' = "fetched"
       \/ /\ outcome' = "failed"
          /\ pc' = "handler"
          /\ UNCHANGED local
    /\ UNCHANGED <<saved, files, defaultparam, load_count, selected_param,
                   conf, pend, nget, summary, start_time, failed, nsave, nread,
                   fatal, envVars, countVars, clock, stateFile, lastsync_date,
                   wrote,
                   filelist, idx, filetoget, filestat, to_download, prior, nsel>>
    /\ okbytes' = IF outcome' = "ok" THEN okbytes + remote[filetoget].size ELSE okbytes

(***************************************************************************)
(* Lines 397-403: the except branch.  When the backup exists, line 402     *)
(* calls logger.debuginfo, which Logger does not have: AttributeError is   *)
(* raised inside the handler, line 403 (the rename back) is not reached    *)
(* and the process ends.                                                   *)
(***************************************************************************)
FetchFailed ==
    /\ pc = "handler"
    /\ nb_files_error' = nb_files_error + 1
    /\ IF isfile(local, Back(filetoget))
       THEN /\ pc' = "crash_handler"
            /\ UNCHANGED idx
       ELSE /\ pc' = AfterEntry(idx, filelist)
            /\ idx' = idx + 1
    /\ UNCHANGED <<saved, files, defaultparam, load_count, selected_param,
                   conf, pend, okbytes, nget, summary, start_time, nsave,
                   nread, fatal, envVars, clock, stateFile, local,
                   lastsync_date, wrote,
                   nb_files_download, tot_size, filelist, filetoget, filestat,
                   to_download, prior, outcome, nsel>>
    /\ failed' = failed \cup {filetoget}

\* lines 404-411 without line 406: the size is not added to tot_size
FetchOkNoBytes ==
    /\ pc = "fetched"
    /\ nb_files_download' = nb_files_download + 1
    /\ tot_size' = tot_size
    /\ local' = IF isfile(local, Back(filetoget))
                THEN Remove(local, Back(filetoget))
                ELSE local
    /\ pc' = AfterEntry(idx, filelist)
    /\ idx' = idx + 1
    /\ UNCHANGED <<saved, files, defaultparam, load_count, selected_param,
                   conf, pend, okbytes, nget, summary, start_time, failed,
                   nsave, nread, fatal, envVars, clock, stateFile,
                   lastsync_date, wrote,
                   nb_files_error, filelist, filetoget, filestat, to_download,
                   prior, outcome, nsel>>

(***************************************************************************)
(* Lines 404-411: the else branch: count the file, delete the backup.      *)
(***************************************************************************)
FetchOk ==
    /\ pc = "fetched"
    /\ nb_files_download' = nb_files_download + 1
    /\ tot_size' = tot_size + filestat.size
    /\ local' = IF isfile(local, Back(filetoget))
                THEN Remove(local, Back(filetoget))
                ELSE local
    /\ pc' = AfterEntry(idx, filelist)
    /\ idx' = idx + 1
    /\ UNCHANGED <<saved, files, defaultparam, load_count, selected_param,
                   conf, pend, okbytes, nget, summary, start_time, failed,
                   nsave, nread, fatal, envVars, clock, stateFile,
                   lastsync_date, wrote,
                   nb_files_error, filelist, filetoget, filestat, to_download,
                   prior, outcome, nsel>>

(***************************************************************************)
(* Lines 415-421: close the connection; a failure is only logged.          *)
(***************************************************************************)
CloseConnection ==
    /\ pc = "close"
    /\ pc' = "save"
    /\ UNCHANGED <<saved, files, defaultparam, load_count, selected_param,
                   conf, pend, okbytes, nget, summary, start_time, failed,
                   nsave, nread, fatal, envVars, loopVars, countVars, clock,
                   stateFile, local,
                   lastsync_date, wrote>>

\* an epoch one second before the moment of the save
SavedEpochEarly(now) == now - 1

\* the epoch written by line 428
SavedEpoch(now) == now

(***************************************************************************)
(* Lines 424-433: save int(time.time()).  open(..., "w") truncates the     *)
(* file; IOError from open leaves it as it was, IOError from write or      *)
(* close leaves it truncated.  Both are only logged.                       *)
(***************************************************************************)
SaveDate ==
    /\ pc = "save"
    /\ \E now \in clock..MaxTime :
          /\ clock' = now
          /\ \/ /\ stateFile' = FileWith(FormatInt(SavedEpoch(now)))
                /\ wrote' = TRUE
             \/ UNCHANGED <<stateFile, wrote>>
             \/ /\ stateFile' = FileWith(<<>>)
                /\ UNCHANGED wrote
    /\ pc' = "finished"
    /\ UNCHANGED <<saved, files, defaultparam, load_count, selected_param,
                   conf, pend, okbytes, nget, summary, start_time, failed,
                   nread, fatal, envVars, loopVars, countVars, local,
                   lastsync_date>>
    /\ nsave' = nsave + 1

(***************************************************************************)
(* Lines 435-437: the "Finished" log line; the script ends.                *)
(***************************************************************************)
Finished ==
    /\ pc = "finished"
    /\ pc' = "done"
    /\ UNCHANGED <<saved, files, defaultparam, load_count, selected_param,
                   conf, pend, okbytes, nget, start_time, failed, nsave, nread,
                   fatal, envVars, loopVars, countVars, clock, stateFile,
                   local,
                   lastsync_date, wrote>>
    /\ summary' = SummaryLine(nb_files_download, tot_size, clock - start_time)

(***************************************************************************)
(* The scheduler starts the next execution of the same profile after the   *)
(* previous process has ended (header, line 6: "Designed as scheduled      *)
(* task").                                                                 *)
(***************************************************************************)
NewRun ==
    /\ pc \in Terminal
    /\ run < MaxRuns
    /\ run' = run + 1
    /\ \/ pc' = "read_state" /\ fatal' = "none"
       \/ pc' = "exit_config" /\ fatal' = "config"
    /\ prev' = [wrote |-> wrote, T |-> clock, errors |-> nb_files_error,
                simulation |-> param.simulation, done |-> (pc = "done"),
                loaded |-> lastsync_date, failed |-> failed]
    /\ stateFile0' = stateFile
    /\ local0' = local
    /\ lastsync_date' = 0
    /\ filelist' = <<>>
    /\ idx' = 0
    /\ filetoget' = NoName
    /\ filestat' = NoStat
    /\ to_download' = FALSE
    /\ nb_files_download' = 0
    /\ nb_files_error' = 0
    /\ tot_size' = 0
    /\ prior' = Absent
    /\ outcome' = "none"
    /\ nsel' = 0
    /\ wrote' = FALSE
    /\ UNCHANGED <<pend, param, clock, stateFile, remote, local>>
    /\ nread' = 0
    /\ nsave' = 0
    /\ failed' = {}
    /\ start_time' = 0
    /\ summary' = NoSummary
    /\ nget' = 0
    /\ okbytes' = 0
    /\ conf' = conf
    /\ selected_param' = selected_param
    /\ load_count' = load_count
    /\ defaultparam' = defaultparam
    /\ files' = files
    /\ saved' = saved

NextStart == LoadConfig \/ StartupLog

Spec == Init /\ [][NextStart]_vars

NextSync ==
    \/ ReadState
    \/ Connect
    \/ ListDir
    \/ Examine
    \/ BackupPrevious
    \/ GetOpen
    \/ GetTransfer
    \/ FetchFailed
    \/ FetchOk
    \/ CloseConnection
    \/ SaveDate
    \/ Finished
    \/ NewRun

SpecSync == InitSync /\ [][NextSync]_vars

(***************************************************************************)
(* The remote side: a regular file of the remote folder is rewritten while *)
(* a run is in progress; its st_mtime becomes the current time (remote and *)
(* local clocks agree).                                                    *)
(***************************************************************************)
RemoteModify ==
    /\ pc \notin {"load_config", "startup_log"} \cup Terminal
    /\ \E n \in DOMAIN remote :
          /\ remote[n].reg
          /\ Cardinality({m \in Names : pend[m] # 0} \cup {n}) <= MaxMods
          /\ remote' = [remote EXCEPT ![n].mtime = clock]
          /\ pend' = [pend EXCEPT ![n] = run]
    /\ UNCHANGED <<pc, run, param, clock, stateFile, local, lastsync_date,
                   filelist, idx, filetoget, filestat, to_download,
                   nb_files_download, nb_files_error, tot_size, prior, outcome,
                   nsel, wrote, fatal, stateFile0, local0, prev, nread, nsave,
                   failed, start_time, summary, nget, okbytes, conf,
                   selected_param, load_count, defaultparam, files, saved>>

\* a real (not simulated) start in which the clocks agree: no mtime is ahead
\* of the wall clock and the watermark, if any, was saved before this start
InitRace ==
    /\ InitEnv
    /\ pc = "read_state"
    /\ fatal = "none"
    /\ ~param.simulation
    /\ \A n \in DOMAIN remote : remote[n].mtime <= clock
    /\ stateFile \in {NoFile} \cup {FileWith(FormatInt(t)) : t \in 0..(clock - 1)}

NextRace == NextSync \/ RemoteModify

SpecRace == InitRace /\ [][NextRace]_vars

(***************************************************************************)
(* Profile resolution and the state file of the resolved profile, over     *)
(* successive invocations with the same grbackup.conf.  The transfer part  *)
(* of a run does not touch a state file and is left out here.              *)
(***************************************************************************)
syncVars == <<stateFile, remote, local, filelist, idx, filetoget, filestat,
              to_download, nb_files_download, nb_files_error, tot_size, prior,
              outcome, nsel, wrote, fatal, stateFile0, local0, prev, nread,
              nsave, failed, start_time, summary, nget, okbytes, pend>>

InitConfig ==
    /\ pc = "conf_loop"
    /\ run = 1
    /\ clock = 1
    /\ conf \in Confs
    /\ selected_param \in ProfileNames
    /\ load_count = 0
    /\ defaultparam = gr_param("default")
    /\ param = Unbound
    /\ files = [f \in FileNames |-> NoEpoch]
    /\ saved = [n \in ProfileNames |-> 0]
    /\ lastsync_date = 0
    /\ stateFile = NoFile
    /\ remote = <<>>
    /\ local = [p \in Paths |-> Absent]
    /\ filelist = <<>>
    /\ idx = 0
    /\ filetoget = NoName
    /\ filestat = NoStat
    /\ to_download = FALSE
    /\ nb_files_download = 0
    /\ nb_files_error = 0
    /\ tot_size = 0
    /\ prior = Absent
    /\ outcome = "none"
    /\ nsel = 0
    /\ wrote = FALSE
    /\ fatal = "none"
    /\ stateFile0 = stateFile
    /\ local0 = local
    /\ prev = NoPrev
    /\ nread = 0
    /\ nsave = 0
    /\ failed = {}
    /\ start_time = 0
    /\ summary = NoSummary
    /\ nget = 0
    /\ okbytes = 0
    /\ pend = [n \in Names |-> 0]

(***************************************************************************)
(* Lines 251-263: one document of the file.  The first document is loaded  *)
(* into defaultparam; every other one is loaded into a copy of             *)
(* defaultparam and kept when the name of that copy is selected_param.     *)
(***************************************************************************)
LoadFragment ==
    /\ pc = "conf_loop"
    /\ load_count < Len(conf)
    /\ load_count' = load_count + 1
    /\ LET data == conf[load_count + 1]
       IN  IF load_count' = 1
           THEN /\ defaultparam' = load(defaultparam, data)
                /\ param' = defaultparam'
           ELSE LET loadparam == load(defaultparam, data)
                IN  /\ param' = IF selected_param = loadparam.name
                                THEN loadparam
                                ELSE param
                    /\ UNCHANGED defaultparam
    /\ UNCHANGED <<pc, run, clock, lastsync_date, conf, selected_param, files,
                   saved, syncVars>>

(***************************************************************************)
(* Lines 264-265, and the first use of param after the loop: with no       *)
(* document at all the name param is not bound (NameError).                *)
(***************************************************************************)
EndOfConfig ==
    /\ pc = "conf_loop"
    /\ load_count = Len(conf)
    /\ pc' = IF load_count = 0 THEN "crash_config" ELSE "resolved"
    /\ param' = IF load_count = 1 THEN defaultparam ELSE param
    /\ UNCHANGED <<run, clock, lastsync_date, conf, selected_param, load_count,
                   defaultparam, files, saved, syncVars>>

(***************************************************************************)
(* Lines 315-331 on the file param.last_exec_filename.                     *)
(***************************************************************************)
ReadWatermark ==
    /\ pc = "resolved"
    /\ lastsync_date' = IF files[param.last_exec_filename] = NoEpoch
                        THEN 0
                        ELSE files[param.last_exec_filename]
    /\ pc' = "loaded"
    /\ UNCHANGED <<run, param, clock, conf, selected_param, load_count,
                   defaultparam, files, saved, syncVars>>

(***************************************************************************)
(* Lines 424-429 on the file param.last_exec_filename, at the end of a     *)
(* run that reached them.                                                  *)
(***************************************************************************)
SaveWatermark ==
    /\ pc = "loaded"
    /\ files' = [files EXCEPT ![param.last_exec_filename] = clock]
    /\ saved' = [saved EXCEPT ![param.name] = clock]
    /\ pc' = "saved"
    /\ UNCHANGED <<run, param, clock, lastsync_date, conf, selected_param,
                   load_count, defaultparam, syncVars>>

(***************************************************************************)
(* Lines 339-393: a run that stops at one of its exit() calls saves        *)
(* nothing.                                                                *)
(***************************************************************************)
AbortRun ==
    /\ pc = "loaded"
    /\ pc' = "aborted"
    /\ UNCHANGED <<run, param, clock, lastsync_date, conf, selected_param,
                   load_count, defaultparam, files, saved, syncVars>>

\* the program is started again, later, with the same file and any argument
NextInvocation ==
    /\ pc \in {"saved", "aborted", "crash_config"}
    /\ run < MaxRuns
    /\ run' = run + 1
    /\ clock' = clock + 1
    /\ selected_param' \in ProfileNames
    /\ load_count' = 0
    /\ defaultparam' = gr_param("default")
    /\ param' = Unbound
    /\ lastsync_date' = 0
    /\ pc' = "conf_loop"
    /\ UNCHANGED <<conf, files, saved, syncVars>>

NextConfig ==
    \/ LoadFragment
    \/ EndOfConfig
    \/ ReadWatermark
    \/ SaveWatermark
    \/ AbortRun
    \/ NextInvocation

SpecConfig == InitConfig /\ [][NextConfig]_vars

(***************************************************************************)
(* Properties.                                                             *)
(***************************************************************************)
TransferPcs == {"backup", "get", "getting", "handler", "fetched"}

\* the entry filetoget has been examined (its stat has returned)
Examined == filetoget # NoName /\ pc # "crash_stat"

\* sftp.get has returned or raised for filetoget and its branch is over
Returned == outcome \in {"ok", "failed"} /\ pc \notin {"handler", "fetched"}

FatalPc == [config |-> {"exit_config"}, state |-> {"exit_state", "crash_state"},
            connect |-> {"exit_connect"}, listing |-> {"exit_list"},
            backup |-> {"exit_backup"}]

(***************************************************************************)
(* C1 - No-loss: once the transfer of an entry is over, the destination    *)
(* holds the full new content (fetch succeeded), the full prior content    *)
(* (fetch failed, a file existed) or nothing (fetch failed, no file        *)
(* existed); and with a prior file, destination and backup are never both  *)
(* missing.                                                                *)
(***************************************************************************)
C1_NoLoss ==
    Returned =>
        /\ outcome = "ok" => local[filetoget] = Full(filetoget, run)
        /\ (outcome = "failed" /\ prior # Absent) => local[filetoget] = prior
        /\ (outcome = "failed" /\ prior = Absent) => local[filetoget] = Absent
        /\ prior # Absent =>
              (isfile(local, filetoget) \/ isfile(local, Back(filetoget)))

(***************************************************************************)
(* C2 - Previous copy preserved until success: in every state of a         *)
(* transfer of an entry whose destination existed, the full prior content  *)
(* is at the destination or at destination + ".back"; it is at the backup  *)
(* path from before the fetch starts until the fetch has succeeded.        *)
(***************************************************************************)
C2_PriorPreserved ==
    (to_download /\ prior # Absent /\ pc \in TransferPcs \cup {"exit_backup", "crash_handler"}) =>
        /\ local[filetoget] = prior \/ local[Back(filetoget)] = prior
        /\ pc \in {"get", "getting", "handler", "fetched", "crash_handler"} =>
              local[Back(filetoget)] = prior
        /\ pc \in {"backup", "exit_backup"} => local[filetoget] = prior

C2_Witness ==
    /\ pc = "handler"
    /\ prior # Absent
    /\ local[filetoget] = Part(filetoget, run)
    /\ local[Back(filetoget)] = prior

(***************************************************************************)
(* C3 - Restore on failed fetch: the handling of a failed fetch of an      *)
(* entry that had a local file renames the backup back (destination holds  *)
(* the prior content, no backup remains) and adds one to the error count.  *)
(***************************************************************************)
C3_RestoreOnFailure ==
    [][(pc = "handler" /\ prior # Absent) =>
          /\ local'[filetoget] = prior
          /\ local'[Back(filetoget)] = Absent
          /\ nb_files_error' = nb_files_error + 1]_vars

(***************************************************************************)
(* C4 - A fetch failure never aborts the run: the handling of a failed     *)
(* fetch ends the loop body, so that the next entry is examined or, after  *)
(* the last entry, the run goes on to the watermark save.                  *)
(***************************************************************************)
C4_FailureContinues ==
    [][pc = "handler" =>
          /\ pc' = AfterEntry(idx, filelist)
          /\ idx' = idx + 1]_vars

(***************************************************************************)
(* C5 - Fatal conditions never advance the watermark: a run that has hit   *)
(* a config, state read, connection, listing or backup rename failure has  *)
(* ended there; the state file is as before the run; before the loop no    *)
(* entry was touched; on a backup failure no fetch was attempted for the   *)
(* current entry and the loop stands at it.                                *)
(***************************************************************************)
C5_FatalStops ==
    fatal # "none" =>
        /\ pc \in FatalPc[fatal]
        /\ stateFile = stateFile0
        /\ ~wrote
        /\ fatal # "backup" => (local = local0 /\ filetoget = NoName /\ nsel = 0)
        /\ fatal = "backup" =>
              /\ outcome = "none"
              /\ local[filetoget] = prior
              /\ filelist[idx] = filetoget

C5_Witness ==
    /\ pc = "exit_backup"
    /\ fatal = "backup"
    /\ stateFile.exists
    /\ idx < Len(filelist)
    /\ remote[filelist[idx + 1]].reg

(***************************************************************************)
(* C6 - A run ends only by completing the script (after the watermark      *)
(* save) or on one of the five fatal conditions.                           *)
(***************************************************************************)
C6_EndsAtSaveOrFatal ==
    pc \in Terminal => (pc = "done" \/ fatal # "none")

(***************************************************************************)
(* C7 - Decision rule: an examined entry is selected iff it is a regular   *)
(* file and (sync and no local file, or mtime > watermark); only selected  *)
(* regular entries ever reach the statements that change the local folder. *)
(***************************************************************************)
C7_DecisionRule ==
    /\ Examined =>
          (to_download <=>
              /\ remote[filetoget].reg
              /\ \/ param.sync /\ prior = Absent
                 \/ remote[filetoget].mtime > lastsync_date)
    /\ pc \in TransferPcs => (to_download /\ remote[filetoget].reg)

C7_Witness ==
    /\ Examined
    /\ remote[filetoget].reg
    /\ remote[filetoget].mtime = lastsync_date
    /\ lastsync_date > 0
    /\ prior # Absent
    /\ ~to_download

C9_Idempotent ==
    (run > 1 /\ prev.wrote) => nsel = 0

\* when the previous run ended, every regular entry had a local file and a
\* modification time not greater than T, the wall clock of that run's save
SettledAt(fs, T) ==
    \A n \in DOMAIN remote :
        remote[n].reg => (isfile(fs, n) /\ remote[n].mtime <= T)

(***************************************************************************)
(* C9 amended - after a run that saved watermark T and left every regular  *)
(* entry with a local file and mtime <= T, the next run over the unchanged *)
(* remote folder selects no entry.                                         *)
(***************************************************************************)
C9_IdempotentAmended ==
    (run > 1 /\ prev.wrote /\ SettledAt(local0, prev.T)) => nsel = 0

C9_Witness ==
    /\ run > 1
    /\ prev.wrote
    /\ SettledAt(local0, prev.T)
    /\ pc = "done"
    /\ \E n \in DOMAIN remote : remote[n].reg /\ remote[n].mtime = prev.T
    /\ Len(filelist) = 2

(***************************************************************************)
(* C10 - Simulation mode changes no file: with simulation on, the target   *)
(* folder and the state file are as they were when the run started.        *)
(***************************************************************************)
C10_SimulationNoMutation ==
    param.simulation => (local = local0 /\ stateFile = stateFile0)

(***************************************************************************)
(* C11 - Watermark lifecycle: the state load is executed once, before the  *)
(* listing; until the loop is over the state file is not touched; a run    *)
(* whose loop completes executes the save once, after the last entry, and  *)
(* the text it writes is the wall clock of that moment, whatever the       *)
(* counters are.                                                           *)
(***************************************************************************)
C11_WatermarkLifecycle ==
    /\ pc \in {"read_state", "exit_config"} => nread = 0
    /\ pc \notin {"load_config", "startup_log", "read_state", "exit_config"} => nread = 1
    /\ pc \notin {"finished", "done"} =>
          (nsave = 0 /\ ~wrote /\ stateFile = stateFile0)
    /\ pc \in {"finished", "done"} =>
          /\ nsave = 1
          /\ idx = Len(filelist) + 1
          /\ wrote => stateFile = FileWith(FormatInt(clock))

C11_Witness ==
    /\ pc = "done"
    /\ wrote
    /\ nb_files_download = 1
    /\ nb_files_error = 1
    /\ \E n \in DOMAIN remote : remote[n].mtime > clock
    /\ stateFile # stateFile0

(***************************************************************************)
(* C13 - Failed watermark save degrades to a re-sync: after a run that     *)
(* reached its end with the save failed, the next run reads the state      *)
(* without a fatal error and loads the watermark the previous run loaded.  *)
(***************************************************************************)
C13_FailedSaveResync ==
    (run > 1 /\ prev.done /\ ~prev.wrote /\ nread = 1 /\ pc # "exit_state") =>
        /\ pc # "crash_state"
        /\ lastsync_date = prev.loaded

(***************************************************************************)
(* C20 - Failed files are retried as claimed: an entry whose fetch failed  *)
(* in a run that reached its end is selected when the next run examines    *)
(* it.                                                                     *)
(***************************************************************************)
C20_FailedRetried ==
    (run > 1 /\ prev.done /\ Examined /\ filetoget \in prev.failed) =>
        to_download

(***************************************************************************)
(* C20 amended - an entry whose fetch failed in a run that reached its end *)
(* is selected by the next run exactly when sync is on and no file is at   *)
(* its destination when that run examines it, or its mtime is greater than *)
(* the watermark that run loaded.                                          *)
(***************************************************************************)
C20_FailedRetriedAmended ==
    (run > 1 /\ prev.done /\ Examined /\ filetoget \in prev.failed) =>
        /\ remote[filetoget].reg
        /\ to_download <=>
              \/ param.sync /\ prior = Absent
              \/ remote[filetoget].mtime > lastsync_date

C20_Witness ==
    /\ run > 1
    /\ prev.done
    /\ prev.wrote
    /\ Examined
    /\ filetoget \in prev.failed
    /\ prior = Part(filetoget, run - 1)
    /\ param.sync
    /\ ~to_download

(***************************************************************************)
(* C16 - Every run, ended normally or by a fatal abort of the              *)
(* synchronisation, has emitted a summary line stating files downloaded,   *)
(* bytes, duration and error count.                                        *)
(***************************************************************************)
C16_SummaryAlways ==
    pc \in {"done", "exit_state", "exit_connect", "exit_list", "exit_backup"} =>
        /\ summary.emitted
        /\ {"files", "bytes", "duration", "errors"} \subseteq DOMAIN summary

\* the counters account for every sftp.get call that is over
CountersAgree ==
    LET inflight == IF pc \in {"getting", "handler", "fetched"} THEN 1 ELSE 0
        uncounted == IF pc = "fetched" THEN remote[filetoget].size ELSE 0
    IN  /\ nb_files_download + nb_files_error = nget - inflight
        /\ tot_size = okbytes - uncounted

(***************************************************************************)
(* C17 - Run counters are additive: within a run no counter decreases, a   *)
(* step adds at most one to exactly one of nb_files_download and           *)
(* nb_files_error, their sum is the number of sftp.get calls that are      *)
(* over, and tot_size is the sum of the sizes of the entries fetched.      *)
(***************************************************************************)
C17_CountersAdditive ==
    [][run' = run =>
          /\ nb_files_download' >= nb_files_download
          /\ nb_files_error' >= nb_files_error
          /\ tot_size' >= tot_size
          /\ (nb_files_download' - nb_files_download)
               + (nb_files_error' - nb_files_error) <= 1
          /\ CountersAgree']_vars

C17_Witness ==
    /\ pc = "done"
    /\ nb_files_download = 1
    /\ nb_files_error = 1
    /\ nget = 2
    /\ tot_size = okbytes
    /\ tot_size > 0

(***************************************************************************)
(* C18 - Entry independence: no step of the transfer of one entry changes  *)
(* the local file of another entry of the listing.                         *)
(***************************************************************************)
C18_EntryIndependence ==
    [][\A n \in DOMAIN remote :
          (pc \in TransferPcs /\ n # filetoget) => local'[n] = local[n]]_vars

(***************************************************************************)
(* C19 - No remote modification is permanently missed: when a run ends     *)
(* with every fetch succeeded, every entry modified before that run        *)
(* started has been selected since its modification.                       *)
(***************************************************************************)
C19_NoModificationMissed ==
    (pc = "done" /\ nb_files_error = 0) =>
        \A n \in DOMAIN remote : pend[n] # 0 => pend[n] = run

\* what the configuration file says, read off conf itself
BuiltIn == gr_param("default")

DefaultProfile == [f \in Fields |-> IF f \in DOMAIN conf[1] THEN conf[1][f] ELSE BuiltIn[f]]

Over(i) == [f \in Fields |-> IF f \in DOMAIN conf[i] THEN conf[i][f] ELSE DefaultProfile[f]]

NamedMatch == {i \in 2..Len(conf) : "name" \in DOMAIN conf[i] /\ conf[i].name = selected_param}

NamedConf ==
    /\ \A i \in DOMAIN conf : "name" \in DOMAIN conf[i]
    /\ \A i, j \in DOMAIN conf : i # j => conf[i].name # conf[j].name

(***************************************************************************)
(* C12 - Per-profile watermark isolation: with a configuration whose       *)
(* profiles are all named, with different names, the watermark a run loads *)
(* is the one saved by the last completed run of the same profile (0 when  *)
(* that profile has not completed a run); a run of another profile does    *)
(* not change it.                                                          *)
(***************************************************************************)
C12_WatermarkIsolation ==
    (pc = "loaded" /\ NamedConf) => lastsync_date = saved[param.name]

(***************************************************************************)
(* C14 - Field-by-field override: when selected_param is the name of a     *)
(* named override document, every field of the resolved profile is that    *)
(* document's value if it sets the field and the default profile's value   *)
(* otherwise; the default profile is the first document over the built-in  *)
(* values and is not changed by the later documents.                       *)
(***************************************************************************)
C14_FieldByField ==
    /\ load_count >= 1 => \A f \in Fields : defaultparam[f] = DefaultProfile[f]
    /\ (pc = "resolved" /\ NamedMatch # {}) =>
           \E i \in NamedMatch : \A f \in Fields : param[f] = Over(i)[f]

(***************************************************************************)
(* C15 - Fallback to default: when no named override document has the name *)
(* selected_param (a file of one document included), resolution ends       *)
(* without failure and the resolved profile is the default profile in      *)
(* every field.                                                            *)
(***************************************************************************)
C15_FallbackToDefault ==
    (pc \in {"resolved", "crash_config"} /\ Len(conf) >= 1 /\ NamedMatch = {}) =>
        /\ pc = "resolved"
        /\ \A f \in Fields : param[f] = DefaultProfile[f]

====
